---- MODULE Spec2Model ----
(* Model of src/main.py: the POST /convert-pdf pipeline                     *)
(*   download_pdf -> convert_pdf_to_images -> upload_image_to_azure_blob    *)
(*   (one asyncio task per page, joined by asyncio.gather)                  *)
(* together with the blob container the upload tasks of all requests share. *)
EXTENDS Integers, Sequences, FiniteSets, TLC

(* ------------------------------------------------------------------ *)
(* Bounds of the model and constants of the program                    *)
(* ------------------------------------------------------------------ *)

\* Largest page count of the documents that go through the whole pipeline.
MaxPages == 2

\* MAX_PDF_SIZE = 100 * 1024 * 1024
MAX_PDF_SIZE == 104857600

\* MAX_PAGE_COUNT = 3000
MAX_PAGE_COUNT == 3000

\* The requests the server handles concurrently.
Requests == {"r1", "r2"}

(* ------------------------------------------------------------------ *)
(* Text: strings the code inspects are sequences of characters        *)
(* ------------------------------------------------------------------ *)

Upper == <<"A", "D", "F", "H", "L", "M", "P", "T", "X">>

LowerOf == <<"a", "d", "f", "h", "l", "m", "p", "t", "x">>

\* str.lower() on one character.
LowerChar(c) ==
    IF \E k \in 1..Len(Upper) : Upper[k] = c
    THEN LowerOf[CHOOSE k \in 1..Len(Upper) : Upper[k] = c]
    ELSE c

\* str.lower()
Lower(s) == [k \in 1..Len(s) |-> LowerChar(s[k])]

\* `sub in s` for strings
Contains(sub, s) ==
    \E k \in 0..(Len(s) - Len(sub)) : SubSeq(s, k + 1, k + Len(sub)) = sub

DigitChar == <<"0", "1", "2", "3", "4", "5", "6", "7", "8", "9">>

RECURSIVE Decimal(_)
\* f"{n}" for a non-negative integer n.
Decimal(n) ==
    IF n < 10 THEN <<DigitChar[n + 1]>>
    ELSE Decimal(n \div 10) \o <<DigitChar[(n % 10) + 1]>>

Min(a, b) == IF a < b THEN a ELSE b

(* ------------------------------------------------------------------ *)
(* Values                                                              *)
(* ------------------------------------------------------------------ *)

\* fastapi.HTTPException(status_code, detail); detail is a format string and
\* the text interpolated into it.
HTTPException(status, msg, arg) ==
    [type |-> "HTTPException", status |-> status, msg |-> msg, arg |-> arg]

\* Any other exception class.
OtherException(type) == [type |-> type, status |-> 0, msg |-> "", arg |-> <<>>]

Return(v) == [ok |-> TRUE, val |-> v, exc |-> OtherException("")]

Raise(e) == [ok |-> FALSE, val |-> <<>>, exc |-> e]

\* A document behind a URL: its bytes (size), what fitz makes of them
\* (parseable, page_count) and the page index whose rasterization raises
\* (bad, -1 when every page rasterizes).
Doc(id, size, parseable, page_count, bad) ==
    [id |-> id, size |-> size, parseable |-> parseable,
     page_count |-> page_count, bad |-> bad]

NoDoc == Doc("", 0, FALSE, 0, -1)

DocIds == {"A", "B"}

\* Documents of page_count 0..MaxPages, each with every choice of failing page.
SmallDocs ==
    {Doc(id, 1000, TRUE, n, b) : id \in DocIds, n \in 0..MaxPages, b \in -1..(MaxPages - 1)}

\* One page over the ceiling.
HugeDoc == Doc("A", 1000, TRUE, MAX_PAGE_COUNT + 1, -1)

\* Bytes that are no PDF, of exactly the size ceiling.
GarbageDoc == Doc("G", MAX_PDF_SIZE, FALSE, 0, -1)

\* One byte over the size ceiling.
OversizeDoc == Doc("A", MAX_PDF_SIZE + 1, TRUE, 1, -1)

PipelineDocs ==
    {d \in SmallDocs : d.bad < d.page_count} \cup {HugeDoc, GarbageDoc, OversizeDoc}

PdfType == <<"X", "/", "P", "d", "f">>

HtmlType == <<"t", "/", "h", "t", "m", "l">>

\* What the remote server answers: a transport failure (exception class, ""
\* when the exchange completes), the status, the Content-Type header (<<>>
\* when absent: headers.get('Content-Type', '')) and the body.
Remote(transport, status, content_type, body) ==
    [transport |-> transport, status |-> status,
     content_type |-> content_type, body |-> body]

NoRemote == Remote("", 0, <<>>, NoDoc)

Remotes ==
    {Remote("ClientError", 0, <<>>, NoDoc), Remote("TimeoutError", 0, <<>>, NoDoc),
     Remote("", 404, HtmlType, NoDoc), Remote("", 503, <<>>, NoDoc),
     Remote("", 200, HtmlType, NoDoc), Remote("", 200, <<>>, NoDoc)}
    \cup {Remote("", 200, PdfType, d) : d \in PipelineDocs}

\* The PNG bytes pix.tobytes("png") gives for page page_num of a document.
Rasterize(doc, page_num) == [doc |-> doc.id, page |-> page_num]

NoImage == [doc |-> "", page |-> -1]

\* f"page{idx + 1}.png"
BlobName(idx) == <<"page", Decimal(idx + 1), ".png">>

NoName == <<"", <<>>, "">>

\* f"{blob_client.url}?{sas_token}": the blob the URL names and the read
\* permission of the token.
BlobUrl(filename) == [blob |-> filename, permission |-> "r"]

NoUrl == [blob |-> NoName, permission |-> ""]

\* os.getenv("AZURE_CONTAINER_NAME"): unset or set.
ContainerNames == {"", "images"}

\* AZURE_STORAGE_CONNECTION_STRING after split(';'), each part after
\* split('=', 1): complete, without AccountKey, and with a trailing ';'.
ConnectionStrings ==
    {<< <<"AccountName", "acct">>, <<"AccountKey", "key">> >>,
     << <<"AccountName", "acct">>, <<"EndpointSuffix", "core">> >>,
     << <<"AccountName", "acct">>, <<"AccountKey", "key">>, <<"">> >>}

\* The HTTP response of POST /convert-pdf: {"images": [...]} with status 200,
\* or {"detail": ...} with the exception's status.
Success(image_urls) ==
    [status |-> 200, msg |-> "", arg |-> <<>>, images |-> image_urls]

Failure(e) ==
    [status |-> e.status, msg |-> e.msg, arg |-> e.arg, images |-> <<>>]

NoResponse == [status |-> 0, msg |-> "", arg |-> <<>>, images |-> <<>>]

\* One upload task: where it stands, whether its create_container raised for
\* a reason other than the container existing, and the URL it returned.
Task(st, create_error, url) == [st |-> st, create_error |-> create_error, url |-> url]

(* ------------------------------------------------------------------ *)
(* State                                                               *)
(* ------------------------------------------------------------------ *)

VARIABLES
    container_name,     \* os.getenv("AZURE_CONTAINER_NAME")
    connection_string,  \* AZURE_STORAGE_CONNECTION_STRING
    container_exists,   \* the storage account holds the container
    blobs,              \* blob name -> stored bytes
    pc,                 \* request -> position in convert_pdf
    remote,             \* request -> what the server behind pdf.url answered
    pdf_bytes,          \* request -> download_pdf's result
    page_num,           \* request -> loop variable of convert_pdf_to_images
    image_bytes_list,   \* request -> images rendered so far
    rasterized,         \* request -> number of get_pixmap calls made
    tasks,              \* request -> upload tasks, by page position
    finished,           \* request -> positions of the tasks that returned, in order of return
    storage_ops,        \* request -> storage calls its tasks have made
    response            \* request -> what the caller received

vars ==
    <<container_name, connection_string, container_exists, blobs, pc, remote,
      pdf_bytes, page_num, image_bytes_list, rasterized, tasks, finished,
      storage_ops, response>>

config == <<container_name, connection_string>>

storage == <<container_exists, blobs>>

render_state == <<page_num, image_bytes_list, rasterized>>

upload_state == <<tasks, finished, storage_ops>>

BlobNames == {BlobName(i) : i \in 0..(MaxPages - 1)}

InitRequests ==
    /\ remote = [r \in Requests |-> NoRemote]
    /\ pdf_bytes = [r \in Requests |-> NoDoc]
    /\ page_num = [r \in Requests |-> 0]
    /\ image_bytes_list = [r \in Requests |-> <<>>]
    /\ rasterized = [r \in Requests |-> 0]
    /\ tasks = [r \in Requests |-> <<>>]
    /\ finished = [r \in Requests |-> <<>>]
    /\ storage_ops = [r \in Requests |-> 0]
    /\ response = [r \in Requests |-> NoResponse]

Init ==
    /\ container_name \in ContainerNames
    /\ connection_string \in ConnectionStrings
    /\ container_exists \in BOOLEAN
    /\ blobs = [n \in BlobNames |-> NoImage]
    /\ pc = [r \in Requests |-> "idle"]
    /\ InitRequests

\* The handler raises: FastAPI answers with the exception's status and detail.
Respond(r, resp) ==
    /\ pc' = [pc EXCEPT ![r] = "responded"]
    /\ response' = [response EXCEPT ![r] = resp]

(* ------------------------------------------------------------------ *)
(* download_pdf                                                        *)
(* ------------------------------------------------------------------ *)

\* response.status != 200
BadStatus(status) == status # 200

\* 'pdf' not in content_type.lower()
NotPdf(content_type) == ~ Contains(<<"p", "d", "f">>, Lower(content_type))

\* len(pdf_bytes) > MAX_PDF_SIZE
TooLarge(size) == size > MAX_PDF_SIZE

\* The body of the try block of download_pdf.
DownloadTry(rem) ==
    IF rem.transport # "" THEN Raise(OtherException(rem.transport))
    ELSE IF BadStatus(rem.status)
    THEN Raise(HTTPException(400, "Failed to download PDF. Status code: ",
                             Decimal(rem.status)))
    ELSE IF NotPdf(rem.content_type)
    THEN Raise(HTTPException(400, "URL does not point to a PDF file. Content-Type: ",
                             rem.content_type))
    ELSE IF TooLarge(rem.body.size)
    THEN Raise(HTTPException(400, "PDF file is too large.", <<>>))
    ELSE Return(rem.body)

\* except aiohttp.ClientError / except Exception: HTTPException is an
\* Exception and no ClientError, so the second clause takes it too.
DownloadExcept(e) ==
    IF e.type = "ClientError"
    THEN HTTPException(400, "Client error occurred while downloading PDF.", <<>>)
    ELSE HTTPException(500, "Unexpected error occurred.", <<>>)

download_pdf(rem) ==
    LET t == DownloadTry(rem)
    IN  IF t.ok THEN t ELSE Raise(DownloadExcept(t.exc))

\* pdf_bytes = await download_pdf(str(pdf.url))
Download(r) ==
    /\ pc[r] = "idle"
    /\ \E rem \in Remotes :
         LET res == download_pdf(rem)
         IN  /\ remote' = [remote EXCEPT ![r] = rem]
             /\ IF res.ok
                THEN /\ pdf_bytes' = [pdf_bytes EXCEPT ![r] = res.val]
                     /\ pc' = [pc EXCEPT ![r] = "downloaded"]
                     /\ UNCHANGED response
                ELSE /\ Respond(r, Failure(res.exc))
                     /\ UNCHANGED pdf_bytes
    /\ UNCHANGED <<config, storage, render_state, upload_state>>

(* ------------------------------------------------------------------ *)
(* convert_pdf_to_images                                               *)
(* ------------------------------------------------------------------ *)

\* Mutant of TooManyPages: the ceiling itself is rejected (>= for >).
TooManyPagesAtLimit(page_count) == page_count >= MAX_PAGE_COUNT

\* Mutant of TooManyPages: the ceiling is off by one (3001 pages pass).
TooManyPagesOffByOne(page_count) == page_count > MAX_PAGE_COUNT + 1

\* page_count > MAX_PAGE_COUNT
TooManyPages(page_count) == page_count > MAX_PAGE_COUNT

\* range(min(page_count, MAX_PAGE_COUNT)): the first index and the end.
FirstPage == 0

LoopEnd(page_count) == Min(page_count, MAX_PAGE_COUNT)

\* fitz.open(stream=pdf_bytes, filetype="pdf") and the page count check.
OpenTry(doc) ==
    IF ~ doc.parseable THEN Raise(OtherException("FileDataError"))
    ELSE IF TooManyPages(doc.page_count)
    THEN Raise(HTTPException(400, "PDF has too many pages. Maximum allowed is 3000: ",
                             Decimal(doc.page_count)))
    ELSE Return(doc.page_count)

\* doc.load_page(page_num).get_pixmap(dpi=DPI).tobytes("png")
PageTry(doc, n) ==
    IF doc.bad = n THEN Raise(OtherException("RuntimeError"))
    ELSE Return(Rasterize(doc, n))

\* except Exception, which takes the HTTPException of the page count check too.
RenderExcept(e) == HTTPException(500, "Error converting PDF to images.", <<>>)

\* image_bytes_list = []; with fitz.open(...) as doc: ... the page count check.
RenderOpen(r) ==
    /\ pc[r] = "downloaded"
    /\ LET t == OpenTry(pdf_bytes[r])
       IN  IF t.ok
           THEN /\ pc' = [pc EXCEPT ![r] = "rendering"]
                /\ page_num' = [page_num EXCEPT ![r] = FirstPage]
                /\ image_bytes_list' = [image_bytes_list EXCEPT ![r] = <<>>]
                /\ UNCHANGED response
           ELSE /\ Respond(r, Failure(RenderExcept(t.exc)))
                /\ UNCHANGED <<page_num, image_bytes_list>>
    /\ UNCHANGED <<config, storage, remote, pdf_bytes, rasterized, upload_state>>

\* One iteration of `for page_num in range(...)`.
RenderPage(r) ==
    /\ pc[r] = "rendering"
    /\ page_num[r] < LoopEnd(pdf_bytes[r].page_count)
    /\ rasterized' = [rasterized EXCEPT ![r] = @ + 1]
    /\ LET t == PageTry(pdf_bytes[r], page_num[r])
       IN  IF t.ok
           THEN /\ image_bytes_list' = [image_bytes_list EXCEPT ![r] = Append(@, t.val)]
                /\ page_num' = [page_num EXCEPT ![r] = @ + 1]
                /\ UNCHANGED <<pc, response>>
           ELSE /\ Respond(r, Failure(RenderExcept(t.exc)))
                /\ UNCHANGED <<page_num, image_bytes_list>>
    /\ UNCHANGED <<config, storage, remote, pdf_bytes, upload_state>>

\* The loop is over: return image_bytes_list.
RenderReturn(r) ==
    /\ pc[r] = "rendering"
    /\ page_num[r] >= LoopEnd(pdf_bytes[r].page_count)
    /\ pc' = [pc EXCEPT ![r] = "rendered"]
    /\ UNCHANGED <<config, storage, remote, pdf_bytes, render_state, upload_state,
                   response>>

(* ------------------------------------------------------------------ *)
(* upload_image_to_azure_blob                                          *)
(* ------------------------------------------------------------------ *)

\* except Exception at the end of upload_image_to_azure_blob.
UploadExcept(e) == HTTPException(500, "Error uploading images.", <<>>)

\* The task up to its first await: `if not container_name: raise`.
UploadStart ==
    IF container_name = "" THEN Task("failed", FALSE, NoUrl)
    ELSE Task("creating", FALSE, NoUrl)

\* What create_container() can do: create the container, find it there
\* (ResourceExistsError), or fail for another reason (HttpResponseError).
CreateOutcomes ==
    IF container_exists THEN {"ResourceExistsError", "HttpResponseError"}
    ELSE {"created", "HttpResponseError"}

\* try: await container_client.create_container()
\* except Exception as e: logging.info(...)
\* Whatever the outcome, the task goes on to upload_blob.
AfterCreate(t, outcome) == Task("writing", outcome = "HttpResponseError", t.url)

\* conn_dict.get(key) of parse_connection_string's result, "" for None.
ConnGet(cs, key) ==
    IF \E k \in 1..Len(cs) : cs[k][1] = key
    THEN cs[CHOOSE k \in 1..Len(cs) :
                /\ cs[k][1] = key
                /\ \A j \in (k + 1)..Len(cs) : cs[j][1] # key][2]
    ELSE ""

\* From parse_connection_string to `return blob_url`.
SignTry(cs, filename) ==
    IF \E k \in 1..Len(cs) : Len(cs[k]) # 2
    THEN Raise(OtherException("ValueError"))
    ELSE IF ConnGet(cs, "AccountName") = "" \/ ConnGet(cs, "AccountKey") = ""
    THEN Raise(OtherException("Exception"))
    ELSE Return(BlobUrl(filename))

\* The create_container() call of task i of request r returns or raises.
CreateContainer(r, i) ==
    /\ i \in 1..Len(tasks[r])
    /\ tasks[r][i].st = "creating"
    /\ \E outcome \in CreateOutcomes :
         /\ container_exists' = (container_exists \/ outcome = "created")
         /\ tasks' = [tasks EXCEPT ![r][i] = AfterCreate(@, outcome)]
    /\ storage_ops' = [storage_ops EXCEPT ![r] = @ + 1]
    /\ UNCHANGED <<config, blobs, pc, remote, pdf_bytes, render_state, finished,
                   response>>

\* upload_blob(image_bytes, overwrite=True) of task i of request r writes the
\* blob or raises (always when the container is missing); after a write the
\* task signs and returns the URL.
UploadBlob(r, i) ==
    /\ i \in 1..Len(tasks[r])
    /\ tasks[r][i].st = "writing"
    /\ \E written \in (IF container_exists THEN BOOLEAN ELSE {FALSE}) :
         LET filename == BlobName(i - 1)
             res == IF written THEN SignTry(connection_string, filename)
                    ELSE Raise(OtherException("HttpResponseError"))
         IN  /\ blobs' = IF written
                         THEN [blobs EXCEPT ![filename] = image_bytes_list[r][i]]
                         ELSE blobs
             /\ tasks' = [tasks EXCEPT ![r][i] =
                            IF res.ok THEN Task("done", @.create_error, res.val)
                            ELSE Task("failed", @.create_error, NoUrl)]
             /\ finished' = IF res.ok THEN [finished EXCEPT ![r] = Append(@, i)]
                            ELSE finished
    /\ storage_ops' = [storage_ops EXCEPT ![r] = @ + 1]
    /\ UNCHANGED <<config, container_exists, pc, remote, pdf_bytes, render_state,
                   response>>

(* ------------------------------------------------------------------ *)
(* convert_pdf                                                         *)
(* ------------------------------------------------------------------ *)

\* upload_tasks = [upload_image_to_azure_blob(image_bytes, f"page{idx + 1}.png")
\*                 for idx, image_bytes in enumerate(image_bytes_list)]
\* and the start of asyncio.gather(*upload_tasks): every task runs to its
\* first await.
Launch(r) ==
    /\ pc[r] = "rendered"
    /\ tasks' = [tasks EXCEPT ![r] = [i \in 1..Len(image_bytes_list[r]) |-> UploadStart]]
    /\ pc' = [pc EXCEPT ![r] = "uploading"]
    /\ UNCHANGED <<config, storage, remote, pdf_bytes, render_state, finished,
                   storage_ops, response>>

\* asyncio.gather raises as soon as one of its tasks has raised.
GatherRaises(r) == \E i \in 1..Len(tasks[r]) : tasks[r][i].st = "failed"

\* Mutant of GatherReturns: the wait ends when the first task has returned
\* (FIRST_COMPLETED for ALL_COMPLETED).
GatherReturnsFirst(r) == \E i \in 1..Len(tasks[r]) : tasks[r][i].st = "done"

\* asyncio.gather returns once every task has returned.
GatherReturns(r) == \A i \in 1..Len(tasks[r]) : tasks[r][i].st = "done"

\* Mutant of GatherResult: the results in the order the tasks completed
\* (as asyncio.as_completed gives them).
GatherResultAsCompleted(r) ==
    [k \in 1..Len(finished[r]) |-> tasks[r][finished[r][k]].url]

\* The list asyncio.gather returns: the tasks' results in the order of the
\* awaitables passed to it.
GatherResult(r) == [i \in 1..Len(tasks[r]) |-> tasks[r][i].url]

\* Mutant of NoImages: a test no list passes (`is None` for `not`).
NoImagesIsNone(image_urls) == Len(image_urls) < 0

\* if not image_urls
NoImages(image_urls) == image_urls = <<>>

\* image_urls = await asyncio.gather(*upload_tasks) raises the exception of
\* the first task that failed; the other tasks are left running.
GatherFail(r) ==
    /\ pc[r] = "uploading"
    /\ GatherRaises(r)
    /\ Respond(r, Failure(UploadExcept(OtherException("HTTPException"))))
    /\ UNCHANGED <<config, storage, remote, pdf_bytes, render_state, upload_state>>

\* image_urls = await asyncio.gather(*upload_tasks) returns; the empty check;
\* return {"images": image_urls}.
GatherDone(r) ==
    /\ pc[r] = "uploading"
    /\ ~ GatherRaises(r)
    /\ GatherReturns(r)
    /\ LET image_urls == GatherResult(r)
       IN  IF NoImages(image_urls)
           THEN Respond(r, Failure(HTTPException(500, "No images were generated.", <<>>)))
           ELSE Respond(r, Success(image_urls))
    /\ UNCHANGED <<config, storage, remote, pdf_bytes, render_state, upload_state>>

(* ------------------------------------------------------------------ *)
(* Specifications                                                      *)
(* ------------------------------------------------------------------ *)

Positions == 1..MaxPages

Next ==
    \E r \in Requests :
        \/ Download(r)
        \/ RenderOpen(r)
        \/ RenderPage(r)
        \/ RenderReturn(r)
        \/ Launch(r)
        \/ \E i \in Positions : CreateContainer(r, i)
        \/ \E i \in Positions : UploadBlob(r, i)
        \/ GatherFail(r)
        \/ GatherDone(r)

\* Concurrent requests through the whole pipeline.
Spec == Init /\ [][Next]_vars

\* One request alone against the storage account.
InitOne ==
    /\ container_name \in ContainerNames
    /\ connection_string \in ConnectionStrings
    /\ container_exists \in BOOLEAN
    /\ blobs = [n \in BlobNames |-> NoImage]
    /\ pc = [r \in Requests |-> IF r = "r1" THEN "idle" ELSE "absent"]
    /\ InitRequests

SpecOne == InitOne /\ [][Next]_vars

\* Documents for the renderer alone: the small ones and the ones around the
\* page ceiling, without and with a last page that fails to rasterize.
RenderDocs ==
    {d \in SmallDocs : d.id = "A" /\ d.bad < d.page_count}
    \cup {Doc("A", 1000, TRUE, n, b) :
            n \in (MAX_PAGE_COUNT - 1)..(MAX_PAGE_COUNT + 1), b \in {-1, MAX_PAGE_COUNT - 2}}
    \cup {GarbageDoc}

\* convert_pdf_to_images applied to each of RenderDocs.
InitRender ==
    /\ container_name = "images"
    /\ connection_string \in {cs \in ConnectionStrings : Len(cs) = 3}
    /\ container_exists = TRUE
    /\ blobs = [n \in BlobNames |-> NoImage]
    /\ pc = [r \in Requests |-> IF r = "r1" THEN "downloaded" ELSE "absent"]
    /\ \E d \in RenderDocs :
         /\ remote = [r \in Requests |->
                        IF r = "r1" THEN Remote("", 200, PdfType, d) ELSE NoRemote]
         /\ pdf_bytes = [r \in Requests |-> IF r = "r1" THEN d ELSE NoDoc]
    /\ page_num = [r \in Requests |-> 0]
    /\ image_bytes_list = [r \in Requests |-> <<>>]
    /\ rasterized = [r \in Requests |-> 0]
    /\ tasks = [r \in Requests |-> <<>>]
    /\ finished = [r \in Requests |-> <<>>]
    /\ storage_ops = [r \in Requests |-> 0]
    /\ response = [r \in Requests |-> NoResponse]

NextRender ==
    \E r \in Requests :
        \/ RenderOpen(r)
        \/ RenderPage(r)
        \/ RenderReturn(r)

SpecRender == InitRender /\ [][NextRender]_vars

(* ------------------------------------------------------------------ *)
(* Claims                                                              *)
(* ------------------------------------------------------------------ *)

\* The signed URL resolved by a reader: the bytes now stored under its blob.
Resolve(url) == blobs[url.blob]

Answered(r) == pc[r] = "responded"

\* C1: a request whose URL the remote server answers with a non-success status
\* S receives status 400 with detail "Failed to download PDF. Status code: S".
C1_NonSuccessStatusIs400 ==
    \A r \in Requests :
        (Answered(r) /\ remote[r].transport = "" /\ remote[r].status \notin 200..299)
        => /\ response[r].status = 400
           /\ response[r].msg = "Failed to download PDF. Status code: "
           /\ response[r].arg = Decimal(remote[r].status)

\* C2: a wrong content type, a body over 100 MiB and a document of more than
\* 3000 pages are each answered with status 400, the first with a detail that
\* names the content type.
C2_InputRejectionsAre400 ==
    \A r \in Requests :
        (Answered(r) /\ remote[r].transport = "" /\ remote[r].status = 200)
        => /\ ~ Contains(<<"p", "d", "f">>, Lower(remote[r].content_type))
              => /\ response[r].status = 400
                 /\ response[r].msg = "URL does not point to a PDF file. Content-Type: "
                 /\ response[r].arg = remote[r].content_type
           /\ (/\ Contains(<<"p", "d", "f">>, Lower(remote[r].content_type))
               /\ remote[r].body.size > 104857600)
              => response[r].status = 400
           /\ (pdf_bytes[r].parseable /\ pdf_bytes[r].page_count > 3000)
              => response[r].status = 400

\* C3: every signed URL of a 200 response resolves to the image that the same
\* request stored for that page position, whatever other requests upload.
C3_UrlsResolveToOwnImages ==
    \A r \in Requests :
        (Answered(r) /\ response[r].status = 200)
        => \A i \in 1..Len(response[r].images) :
              Resolve(response[r].images[i]) = image_bytes_list[r][i]

\* C4: in a 200 response the URL at position i (0-based) is the URL returned
\* by the upload of page i, the one of object page<i+1>.png, in whatever order
\* the uploads completed.
C4_UrlsInPageOrder ==
    \A r \in Requests :
        (Answered(r) /\ response[r].status = 200)
        => /\ Len(response[r].images) = Len(tasks[r])
           /\ \A i \in 0..(Len(response[r].images) - 1) :
                 /\ response[r].images[i + 1] = tasks[r][i + 1].url
                 /\ response[r].images[i + 1].blob = <<"page", Decimal(i + 1), ".png">>

\* A 200 response whose uploads completed in another order than page order.
C4_Witness ==
    \E r \in Requests :
        /\ Answered(r)
        /\ response[r].status = 200
        /\ Len(finished[r]) >= 2
        /\ finished[r][1] > finished[r][2]

C6_CreateErrorFailsStore ==
    \A r \in Requests :
        \A i \in 1..Len(tasks[r]) :
            tasks[r][i].create_error
            => /\ tasks[r][i].st # "done"
               /\ tasks[r][i].url = NoUrl
               /\ blobs[BlobName(i - 1)] # image_bytes_list[r][i]

\* C7: after a failed download no page is rasterized and no upload happens;
\* with more than 3000 pages the request fails before a page is rasterized
\* and no upload happens.
C7_RejectionStopsPipeline ==
    \A r \in Requests :
        /\ (/\ remote[r] # NoRemote
            /\ \/ remote[r].transport # ""
               \/ remote[r].status # 200
               \/ ~ Contains(<<"p", "d", "f">>, Lower(remote[r].content_type))
               \/ remote[r].body.size > 104857600)
           => /\ Answered(r)
              /\ response[r].status \in {400, 500}
              /\ rasterized[r] = 0
              /\ tasks[r] = <<>>
              /\ storage_ops[r] = 0
        /\ pdf_bytes[r].page_count > 3000
           => /\ pc[r] \in {"downloaded", "responded"}
              /\ Answered(r) => response[r].status \in {400, 500}
              /\ rasterized[r] = 0
              /\ tasks[r] = <<>>
              /\ storage_ops[r] = 0

\* A request rejected for its 3001 pages.
C7_Witness ==
    \E r \in Requests :
        /\ Answered(r)
        /\ pdf_bytes[r].parseable
        /\ pdf_bytes[r].page_count = 3001

\* C8: when the renderer produces zero pages the request fails with status
\* 500 and the empty-result detail; no 200 response has an empty images list.
C8_EmptyResultIs500 ==
    \A r \in Requests :
        /\ (Answered(r) /\ pdf_bytes[r].parseable /\ pdf_bytes[r].page_count = 0)
           => /\ response[r].status = 500
              /\ response[r].msg = "No images were generated."
        /\ response[r].status = 200 => response[r].images # <<>>

\* A request answered after rendering a document of zero pages.
C8_Witness ==
    \E r \in Requests :
        /\ Answered(r)
        /\ pdf_bytes[r].parseable
        /\ pdf_bytes[r].page_count = 0
        /\ image_bytes_list[r] = <<>>
        /\ pc[r] = "responded"
        /\ response[r].msg = "No images were generated."

\* C9: for a parseable document of at most 3000 pages whose pages all
\* rasterize, render returns page_count images, the one at position i being
\* the rasterization of page i.
C9_RenderAllPagesInOrder ==
    \A r \in Requests :
        (/\ pdf_bytes[r].parseable
         /\ pdf_bytes[r].page_count <= 3000
         /\ pdf_bytes[r].bad = -1
         /\ pc[r] \notin {"absent", "idle", "downloaded", "rendering"})
        => /\ response[r].msg # "Error converting PDF to images."
           /\ Len(image_bytes_list[r]) = pdf_bytes[r].page_count
           /\ rasterized[r] = pdf_bytes[r].page_count
           /\ \A i \in 0..(pdf_bytes[r].page_count - 1) :
                 image_bytes_list[r][i + 1] = [doc |-> pdf_bytes[r].id, page |-> i]

\* Render has returned for a document of exactly 3000 pages.
C9_Witness ==
    \E r \in Requests :
        /\ pc[r] = "rendered"
        /\ pdf_bytes[r].page_count = 3000
        /\ pdf_bytes[r].bad = -1
        /\ Len(image_bytes_list[r]) = 3000

\* C10: once a request has been answered, its upload tasks make no further
\* container-creation, blob-write or token-minting call.
C10_NoStorageCallAfterAnswer ==
    [][\A r \in Requests : Answered(r) => storage_ops'[r] = storage_ops[r]]_vars

====
